---- MODULE Spec2Model ----
(***************************************************************************)
(* Resume evaluator: the four-node evaluation pipeline (pipeline/graph.py), *)
(* the structured generation client with its retry loop (llm.py), the fit   *)
(* stage (agents/evaluate_fit.py) and the PDF text extractor                *)
(* (parsers/pdf.py).                                                        *)
(*                                                                         *)
(* Values.  A Python str or bytes value is a sequence of tokens; "" and b"" *)
(* are the empty sequence.  An Optional value is a set with at most one     *)
(* element: None is {} and a present value x is {x}.                        *)
(***************************************************************************)
EXTENDS Integers, Sequences, FiniteSets, TLC

\* ---------------------------------------------------------------- bounds
\* pages of a PDF file the environment may hand in
MaxPages == 2
\* distinct record contents the generation service may produce per schema
MaxRecords == 2
\* concurrent calls of run_evaluation
MaxRuns == 2
\* threads calling get_openai_client at once
MaxThreads == 3

\* ------------------------------------------------------ program constants
\* evaluate_fit.py:51  evaluation.fit_score >= 70
FitThreshold == 70
\* schemas.py:107  Field(..., ge=0, le=100)
MinScore == 0
MaxScore == 100
\* llm.py:76  stop_after_attempt(3)
MaxAttempts == 3
\* llm.py:77  wait_exponential(multiplier=1, min=2, max=10)
WaitMultiplier == 1
WaitMin == 2
WaitMax == 10

\* api/app.py:96  HTTPException(status_code=400, ...)
BadRequest == 400
\* api/app.py:99  HTTPException(status_code=500, ...)
ServerError == 500

\* ------------------------------------------------------- Optional values
None == {}
Some(x) == {x}
Val(o) == CHOOSE x \in o : TRUE
\* Python truthiness of an Optional[str] / Optional[bytes]: None and the
\* empty value are falsy
Truthy(o) == o /= None /\ Val(o) /= <<>>
\* Python truthiness of an Optional[BaseModel]: only None is falsy
TruthyObj(o) == o /= None

\* -------------------------------------------------------------- PDF files
\* What page.extract_text() does on one page: return a text, return "",
\* or raise.
PageTexts == {"a", "b"}
PageOutcomes == PageTexts \cup {"", "raise"}
Sep == "\n\n"
PdfHeader == "%PDF"
\* bytes PdfReader cannot read at all
JunkBytes == <<"junk">>
SeqsUpTo(S, n) == UNION {[1..k -> S] : k \in 0..n}
\* a readable PDF file: the header followed by its pages
PdfFile(pages) == <<PdfHeader>> \o pages
PdfFiles == {PdfFile(p) : p \in SeqsUpTo(PageOutcomes, MaxPages)}
Readable(bytes) == Len(bytes) >= 1 /\ bytes[1] = PdfHeader
Pages(bytes) == Tail(bytes)

RECURSIVE Join(_)
\* "\n\n".join(text_parts)
Join(parts) ==
    IF parts = <<>> THEN <<>>
    ELSE IF Len(parts) = 1 THEN <<parts[1]>>
    ELSE <<parts[1], Sep>> \o Join(Tail(parts))

\* pdf.py:29-37: the pages whose extraction returned non-empty text, in order
PageYields(p) == p /= "raise" /\ p /= ""
\* a loop over the pages that the first failing page ends
TextPartsStopAtRaise(bytes) ==
    LET pages == Pages(bytes)
        raises == {i \in 1..Len(pages) : pages[i] = "raise"}
        stop == IF raises = {} THEN Len(pages)
                ELSE (CHOOSE i \in raises : \A j \in raises : i <= j) - 1
    IN  SelectSeq(SubSeq(pages, 1, stop), PageYields)

TextParts(bytes) == SelectSeq(Pages(bytes), PageYields)

Returned(v) == [exc |-> "none", value |-> v]
Raised(e) == [exc |-> e, value |-> <<>>]

\* extract_text_from_pdf with the test "if page_text" (pdf.py:32) left out:
\* empty page texts are joined too
extract_text_keeps_empty(bytes) ==
    LET parts == SelectSeq(Pages(bytes), LAMBDA p : p /= "raise") IN
    IF ~Readable(bytes) THEN Raised("ValueError")
    ELSE IF parts = <<>> THEN Raised("ValueError")
    ELSE Returned(Join(parts))

\* pdf.py:9-47
extract_text_from_pdf(bytes) ==
    IF ~Readable(bytes) THEN Raised("ValueError")
    ELSE IF TextParts(bytes) = <<>> THEN Raised("ValueError")
    ELSE Returned(Join(TextParts(bytes)))

\* ------------------------------------------------- generation responses
\* A JSON object of the service: the keys it carries, and the values that
\* matter to the pipeline.
Json(keys, id, score, flag) ==
    [keys |-> keys, id |-> id, fit_score |-> score, is_fit |-> flag]
EmptyObject == Json({}, 0, 0, FALSE)
GeneratedScores == {MinScore - 1, MinScore, FitThreshold - 1, FitThreshold,
                    FitThreshold + 5, MaxScore, MaxScore + 1}
ProfileJson == {Json({"summary"}, i, 0, FALSE) : i \in 1..MaxRecords}
JobJson == {Json({"title", "summary"}, i, 0, FALSE) : i \in 1..MaxRecords}
FitJson == {Json({"fit_score", "is_fit", "fit_summary"}, 0, s, b) :
               s \in GeneratedScores, b \in BOOLEAN}
JsonObjects == ProfileJson \cup JobJson \cup FitJson \cup {EmptyObject}
\* What client.chat.completions.create does on one call: raise, return no
\* content, return text that is not JSON, return a JSON object.
Responses ==
    {[kind |-> k, json |-> EmptyObject] : k \in {"error", "empty", "malformed"}}
    \cup {[kind |-> "json", json |-> j] : j \in JsonObjects}

\* schemas.py:44-125: the fields a schema declares without a default
RequiredFields(schema_model) ==
    CASE schema_model = "CandidateProfile" -> {"summary"}
      [] schema_model = "JobDescription" -> {"title", "summary"}
      [] schema_model = "FitEvaluation" -> {"fit_score", "is_fit", "fit_summary"}
      [] OTHER -> {}

\* a FitEvaluation schema without the ge/le constraints on fit_score
ValidatesIgnoresRange(schema_model, j) ==
    /\ schema_model \in {"CandidateProfile", "JobDescription", "FitEvaluation"}
    /\ RequiredFields(schema_model) \subseteq j.keys

\* schemas.py:44-133: required fields and the range of fit_score
Validates(schema_model, j) ==
    CASE schema_model = "CandidateProfile" -> "summary" \in j.keys
      [] schema_model = "JobDescription" -> {"title", "summary"} \subseteq j.keys
      [] schema_model = "FitEvaluation" ->
            /\ {"fit_score", "is_fit", "fit_summary"} \subseteq j.keys
            /\ j.fit_score >= MinScore
            /\ j.fit_score <= MaxScore
      [] OTHER -> FALSE

\* schema_model.model_validate(json_data) on a JSON object that validates
model_validate(schema_model, j) ==
    IF schema_model = "FitEvaluation"
    THEN [schema |-> schema_model, id |-> j.id,
          fit_score |-> j.fit_score, is_fit |-> j.is_fit]
    ELSE [schema |-> schema_model, id |-> j.id, fit_score |-> 0, is_fit |-> FALSE]
NoRecord == [schema |-> "none", id |-> 0, fit_score |-> 0, is_fit |-> FALSE]

\* llm.py:80-109: the body of the try block of _call_api on one response:
\* the exception it raises ("none": it returns), and why; a validation
\* failure of an object that has every required field is a constraint
\* failure ("range_error")
TryBody(schema_model, resp) ==
    IF resp.kind = "error"
    THEN [exc |-> "APIError", why |-> "api_error", value |-> NoRecord]
    ELSE IF resp.kind = "empty"
    THEN [exc |-> "ValueError", why |-> "empty", value |-> NoRecord]
    ELSE IF resp.kind = "malformed"
    THEN [exc |-> "ValueError", why |-> "json_error", value |-> NoRecord]
    ELSE IF ~Validates(schema_model, resp.json)
    THEN [exc |-> "ValueError",
          why |-> IF RequiredFields(schema_model) \subseteq resp.json.keys
                  THEN "range_error" ELSE "validation_error",
          value |-> NoRecord]
    ELSE [exc |-> "none", why |-> "ok",
          value |-> model_validate(schema_model, resp.json)]

\* the except clause re-raising whatever it caught
ExceptClauseReraises(e) == e

\* llm.py:111-115: the except clause of _call_api
ExceptClause(e) ==
    IF e \in {"ValueError", "JSONDecodeError"} THEN e ELSE "ValueError"

\* a retry condition that names json.JSONDecodeError alone
RetryIfJSONDecodeErrorOnly(e) == e = "JSONDecodeError"

\* llm.py:75  retry_if_exception_type((ValueError, json.JSONDecodeError))
RetryIf(e) == e \in {"ValueError", "JSONDecodeError"}

\* stop_after_attempt one attempt short
StopAfterAttemptShort(n) == n >= MaxAttempts - 1

\* stop_after_attempt one attempt late
StopAfterAttemptLate(n) == n >= MaxAttempts + 1

\* llm.py:76  stop_after_attempt(3)
StopAfterAttempt(n) == n >= MaxAttempts

Min(a, b) == IF a <= b THEN a ELSE b
Max(a, b) == IF a >= b THEN a ELSE b
\* an exponential wait whose exponent is the attempt number itself
WaitExponentialFromTwo(n) ==
    Max(Max(0, WaitMin), Min(WaitMultiplier * 2 ^ n, WaitMax))

\* llm.py:77  wait_exponential(multiplier=1, min=2, max=10) after attempt n
WaitExponential(n) ==
    Max(Max(0, WaitMin), Min(WaitMultiplier * 2 ^ (n - 1), WaitMax))

\* a retry decorator with reraise set: the last attempt's exception leaves
RetryExhaustedReraises(e) == e

\* llm.py:74-78: the exception the retry decorator raises once it stops
\* retrying (reraise is not set)
RetryExhausted(e) == "RetryError"

\* evaluate_fit returning the generated record as it is
evaluate_fit_uncorrected(evaluation) == evaluation

\* evaluate_fit.py:50-53
evaluate_fit_result(evaluation) ==
    [evaluation EXCEPT !.is_fit = evaluation.fit_score >= FitThreshold]

\* ------------------------------------------------------------------ state
VARIABLES
    pc,                 \* where the thread of control is
    caller,             \* "run_evaluation", or "direct" for a node called on its own
    node,               \* the pipeline node being executed
    args,               \* the arguments of run_evaluation
    state,              \* the EvaluationState dict
    statesCreated,      \* EvaluationState dicts constructed so far
    evaluation_graph,   \* graph.py:139  _evaluation_graph is set
    client,             \* llm.py:20  _client
    clientsConstructed, \* OpenAI(...) constructions so far
    env_api_key,        \* OPENAI_API_KEY is set in the environment
    schema,             \* schema_model of the running structured_completion
    attempt_number,     \* the retry decorator's attempt number
    attempts,           \* how each attempt of this structured_completion ended
    transportCalls,     \* client.chat.completions.create calls of this structured_completion
    sleeps,             \* the waits slept between the attempts of this structured_completion
    pdfCalls,           \* arguments of the calls of extract_text_from_pdf
    profileCalls,       \* ... of extract_candidate_profile
    jobCalls,           \* ... of extract_job_description
    fitCalls,           \* ... of evaluate_fit
    generationCalls,    \* schema_model of each call of structured_completion
    generated,          \* the record the last structured_completion returned
    executed,           \* the nodes executed so far, in order
    produced,           \* what each stage function returned in this run
    error,              \* the exception that ended the run ("none": none so far)
    raisedIn,           \* the function that raised it
    result,             \* the EvaluationResult returned by run_evaluation
    request,            \* the HTTP request being served, if any
    status_code,        \* the status of the HTTP response (0: none yet)
    runs,               \* the concurrent calls of run_evaluation
    heap,               \* the EvaluationState dicts of the concurrent calls
    plan,               \* the inputs and stage outcomes given to every wiring
    lanes,              \* one run per wiring of the two extraction stages
    threads             \* the threads inside get_openai_client

ctl == <<pc, caller, node>>
globals == <<evaluation_graph, client, clientsConstructed, env_api_key>>
retry == <<schema, attempt_number, attempts, transportCalls, sleeps, generated>>
stageCalls == <<pdfCalls, profileCalls, jobCalls, fitCalls>>
outcome == <<error, raisedIn, result>>
history == <<executed, produced>>
http == <<request, status_code>>
concurrent == <<runs, heap>>
rewired == <<plan, lanes>>
\* what the runs of the graph as built never touch
elsewhere == <<rewired, threads>>
\* what a single run of the pipeline called from Python never touches
outside == <<http, concurrent, elsewhere>>
vars == <<ctl, args, state, statesCreated, globals, retry,
          stageCalls, generationCalls, outcome, history, http, concurrent,
          elsewhere>>

\* ----------------------------------------------------------------- inputs
ResumeBytesInputs ==
    {None, Some(<<>>), Some(JunkBytes)} \cup {Some(f) : f \in PdfFiles}
ResumeTextInputs == {None, Some(<<>>), Some(<<"r">>)}
JobTextInputs == {<<>>, <<"j">>}
\* a few bytes values: None, b"", a PDF with text, a PDF without
DirectBytes == {None, Some(<<>>), Some(PdfFile(<<"a">>)), Some(PdfFile(<<"">>))}
\* the (resume_pdf_bytes, resume_text) pairs run_evaluation is called with:
\* every bytes value without a text, and the few bytes values with every text
ResumeInputs ==
    {<<b, None>> : b \in ResumeBytesInputs}
    \cup {<<b, t>> : b \in DirectBytes, t \in ResumeTextInputs}

\* graph.py:19-27
EvaluationState(bytes, text, jd, profile, job, evaluation) ==
    [resume_pdf_bytes |-> bytes, resume_text |-> text,
     job_description_text |-> jd, candidate_profile |-> profile,
     job_description |-> job, evaluation |-> evaluation]
NoState == EvaluationState(None, None, <<>>, None, None, None)

\* the states a node is handed when it is called on its own
DirectStates ==
    {EvaluationState(b, t, jd, p, j, None) :
        b \in DirectBytes, t \in ResumeTextInputs, jd \in JobTextInputs,
        p \in {None, Some(model_validate("CandidateProfile", Json({"summary"}, 1, 0, FALSE)))},
        j \in {None, Some(model_validate("JobDescription", Json({"title", "summary"}, 1, 0, FALSE)))}}
Nodes == {"parse_resume", "profile", "job", "evaluate"}

\* the stage functions have returned nothing yet
NoOutputs == [candidate_profile |-> None, job_description |-> None,
              evaluation |-> None]

\* the concurrent calls of run_evaluation, none of them started
Runs == 1..MaxRuns
NoRun == [pc |-> "idle", args |-> None, ref |-> 0, touched |-> {},
          produced |-> NoOutputs, result |-> None, error |-> "none"]

\* graph.py:129-133 wires parse_resume -> profile -> job -> evaluate; the
\* two extraction nodes are also run the other way round and side by side
Lanes == {"profile_then_job", "job_then_profile", "parallel"}
Extraction == {"profile", "job"}
NoLane == [pc |-> "idle", running |-> {}, done |-> <<>>, state |-> NoState,
           result |-> None, error |-> "none"]

\* the threads that call get_openai_client, none of them inside it
Threads == 1..MaxThreads
NoThread == [pc |-> "idle", got |-> None, error |-> "none"]

\* schemas.py:128-133
EvaluationResult(profile, job, evaluation) ==
    [candidate_profile |-> profile, job_description |-> job,
     evaluation |-> evaluation]

Init ==
    /\ pc = "idle"
    /\ caller = "none"
    /\ node = "none"
    /\ args = None
    /\ state = NoState
    /\ statesCreated = 0
    /\ evaluation_graph = FALSE
    /\ client = None
    /\ clientsConstructed = 0
    /\ env_api_key \in BOOLEAN
    /\ schema = "none"
    /\ attempt_number = 0
    /\ attempts = <<>>
    /\ transportCalls = 0
    /\ sleeps = <<>>
    /\ pdfCalls = <<>>
    /\ profileCalls = <<>>
    /\ jobCalls = <<>>
    /\ fitCalls = <<>>
    /\ generationCalls = <<>>
    /\ generated = NoRecord
    /\ executed = <<>>
    /\ produced = NoOutputs
    /\ error = "none"
    /\ raisedIn = "none"
    /\ result = None
    /\ request = None
    /\ status_code = 0
    /\ runs = [r \in Runs |-> NoRun]
    /\ heap = <<>>
    /\ plan = None
    /\ lanes = [l \in Lanes |-> NoLane]
    /\ threads = [t \in Threads |-> NoThread]

\* ---------------------------------------------------------------- control
\* a graph with an edge from evaluate back to profile
EdgeEvaluateBackToProfile(n) ==
    CASE n = "parse_resume" -> "profile"
      [] n = "profile" -> "job"
      [] n = "job" -> "evaluate"
      [] n = "evaluate" -> "profile"

\* a graph wired with the job stage ahead of the profile stage
EdgeJobBeforeProfile(n) ==
    CASE n = "parse_resume" -> "job"
      [] n = "job" -> "profile"
      [] n = "profile" -> "evaluate"
      [] n = "evaluate" -> "END"

\* graph.py:126-133: the edges of the graph
Edge(n) ==
    CASE n = "parse_resume" -> "profile"
      [] n = "profile" -> "job"
      [] n = "job" -> "evaluate"
      [] n = "evaluate" -> "END"

\* where control goes when node n returns: along the graph's edge, or back
\* to the caller that called the node on its own
After(n) == IF caller = "run_evaluation" THEN Edge(n) ELSE "returned"

\* a node that catches the failure of its generation call and goes on
RaiseSwallowedByNode(e, f) ==
    /\ pc' = IF f = "call_api" THEN After(node) ELSE "raised"
    /\ error' = e
    /\ raisedIn' = f
    /\ result' = result

\* an exception e raised in function f leaves the run: no node and no
\* caller in graph.py or llm.py catches it
Raise(e, f) ==
    /\ pc' = "raised"
    /\ error' = e
    /\ raisedIn' = f
    /\ result' = result

Goto(p) ==
    /\ pc' = p
    /\ UNCHANGED outcome

\* the entry checks without the check of job_description_text
run_evaluation_checks_resume_only(resume_pdf_bytes, resume_text, job_description_text) ==
    IF ~Truthy(resume_pdf_bytes) /\ ~Truthy(resume_text) THEN "ValueError"
    ELSE "none"

\* graph.py:174-180: the exception the entry checks of run_evaluation raise
\* ("none": the inputs pass)
run_evaluation_checks(resume_pdf_bytes, resume_text, job_description_text) ==
    IF job_description_text = <<>> THEN "ValueError"
    ELSE IF ~Truthy(resume_pdf_bytes) /\ ~Truthy(resume_text) THEN "ValueError"
    ELSE "none"

\* graph.py:155-193 up to the first node of graph.invoke
run_evaluation(resume_pdf_bytes, resume_text, job_description_text) ==
    /\ pc = "idle"
    /\ caller' = "run_evaluation"
    /\ args' = Some([resume_pdf_bytes |-> resume_pdf_bytes,
                     resume_text |-> resume_text,
                     job_description_text |-> job_description_text])
    /\ LET e == run_evaluation_checks(resume_pdf_bytes, resume_text,
                                      job_description_text) IN
       IF e /= "none"
       THEN /\ Raise(e, "run_evaluation")
            /\ UNCHANGED <<state, statesCreated, evaluation_graph>>
       ELSE /\ evaluation_graph' = TRUE
            /\ state' = EvaluationState(resume_pdf_bytes, resume_text,
                                        job_description_text, None, None, None)
            /\ statesCreated' = statesCreated + 1
            /\ Goto("parse_resume")
    /\ UNCHANGED <<node, client, clientsConstructed, env_api_key, retry,
                   stageCalls, generationCalls, history, concurrent,
                   elsewhere>>

\* a caller in Python calls run_evaluation
RunEvaluation ==
    /\ \E in \in ResumeInputs, jd \in JobTextInputs :
           run_evaluation(in[1], in[2], jd)
    /\ UNCHANGED http

\* a node function called on its own with a state of the caller's making
CallNode ==
    /\ pc = "idle"
    /\ \E n \in Nodes, st \in DirectStates :
        /\ caller' = "direct"
        /\ state' = st
        /\ statesCreated' = statesCreated + 1
        /\ Goto(n)
    /\ UNCHANGED <<node, args, globals, retry, stageCalls,
                   generationCalls, history, outside>>

\* parse_resume_node without the check of resume_pdf_bytes (graph.py:43-46)
parse_resume_unguarded(st) ==
    LET bytes == IF st.resume_pdf_bytes = None THEN <<>> ELSE Val(st.resume_pdf_bytes)
        extracted == extract_text_from_pdf(bytes)
    IN  IF Truthy(st.resume_text)
        THEN [exc |-> "none", in |-> "none", state |-> st, extractor |-> <<>>]
        ELSE IF extracted.exc /= "none"
        THEN [exc |-> extracted.exc, in |-> "extract_text_from_pdf",
              state |-> st, extractor |-> <<bytes>>]
        ELSE [exc |-> "none", in |-> "none",
              state |-> [st EXCEPT !.resume_text = Some(extracted.value)],
              extractor |-> <<bytes>>]

\* parse_resume_node preferring the PDF bytes to a resume_text already there
parse_resume_pdf_first(st) ==
    IF Truthy(st.resume_pdf_bytes)
    THEN LET extracted == extract_text_from_pdf(Val(st.resume_pdf_bytes)) IN
         IF extracted.exc /= "none"
         THEN [exc |-> extracted.exc, in |-> "extract_text_from_pdf",
               state |-> st, extractor |-> <<Val(st.resume_pdf_bytes)>>]
         ELSE [exc |-> "none", in |-> "none",
               state |-> [st EXCEPT !.resume_text = Some(extracted.value)],
               extractor |-> <<Val(st.resume_pdf_bytes)>>]
    ELSE IF Truthy(st.resume_text)
    THEN [exc |-> "none", in |-> "none", state |-> st, extractor |-> <<>>]
    ELSE [exc |-> "ValueError", in |-> "parse_resume_node", state |-> st,
          extractor |-> <<>>]

\* parse_resume_node without the assignment of graph.py:49
parse_resume_drops_text(st) ==
    IF Truthy(st.resume_text)
    THEN [exc |-> "none", in |-> "none", state |-> st, extractor |-> <<>>]
    ELSE IF ~Truthy(st.resume_pdf_bytes)
    THEN [exc |-> "ValueError", in |-> "parse_resume_node", state |-> st,
          extractor |-> <<>>]
    ELSE LET extracted == extract_text_from_pdf(Val(st.resume_pdf_bytes)) IN
         [exc |-> extracted.exc,
          in |-> IF extracted.exc /= "none" THEN "extract_text_from_pdf" ELSE "none",
          state |-> st, extractor |-> <<Val(st.resume_pdf_bytes)>>]

\* graph.py:30-50 as a function of the state it is handed: the exception it
\* raises and where, the state it returns, and the arguments it called
\* extract_text_from_pdf with
parse_resume(st) ==
    IF Truthy(st.resume_text)
    THEN [exc |-> "none", in |-> "none", state |-> st, extractor |-> <<>>]
    ELSE IF ~Truthy(st.resume_pdf_bytes)
    THEN [exc |-> "ValueError", in |-> "parse_resume_node", state |-> st,
          extractor |-> <<>>]
    ELSE LET extracted == extract_text_from_pdf(Val(st.resume_pdf_bytes)) IN
         IF extracted.exc /= "none"
         THEN [exc |-> extracted.exc, in |-> "extract_text_from_pdf",
               state |-> st, extractor |-> <<Val(st.resume_pdf_bytes)>>]
         ELSE [exc |-> "none", in |-> "none",
               state |-> [st EXCEPT !.resume_text = Some(extracted.value)],
               extractor |-> <<Val(st.resume_pdf_bytes)>>]

\* the node "parse_resume" of the graph (graph.py:121)
parse_resume_node ==
    /\ pc = "parse_resume"
    /\ node' = "parse_resume"
    /\ executed' = Append(executed, "parse_resume")
    /\ UNCHANGED <<produced, outside>>
    /\ LET r == parse_resume(state) IN
        /\ pdfCalls' = pdfCalls \o r.extractor
        /\ state' = r.state
        /\ IF r.exc /= "none"
           THEN Raise(r.exc, r.in)
           ELSE Goto(After("parse_resume"))
    /\ UNCHANGED <<caller, args, statesCreated, globals, retry,
                   profileCalls, jobCalls, fitCalls, generationCalls>>

\* llm.py:23-34 and llm.py:61, then the first call of _call_api (llm.py:117)
structured_completion(schema_model) ==
    /\ generationCalls' = Append(generationCalls, schema_model)
    /\ IF client = None /\ ~env_api_key
       THEN /\ Raise("ValueError", "get_openai_api_key")
            /\ UNCHANGED <<client, clientsConstructed, retry>>
       ELSE /\ IF client = None
               THEN /\ client' = Some("OpenAI")
                    /\ clientsConstructed' = clientsConstructed + 1
               ELSE UNCHANGED <<client, clientsConstructed>>
            /\ schema' = schema_model
            /\ attempt_number' = 1
            /\ attempts' = <<>>
            /\ transportCalls' = 0
            /\ sleeps' = <<>>
            /\ generated' = NoRecord
            /\ Goto("call_api")
    /\ UNCHANGED <<evaluation_graph, env_api_key>>

\* graph.py:53-68 up to the call of extract_candidate_profile
\* (extract_profile.py:7-29)
profile_node ==
    /\ pc = "profile"
    /\ node' = "profile"
    /\ executed' = Append(executed, "profile")
    /\ UNCHANGED <<produced, outside>>
    /\ IF ~Truthy(state.resume_text)
       THEN /\ Raise("ValueError", "profile_node")
            /\ UNCHANGED <<profileCalls, generationCalls, globals, retry>>
       ELSE /\ profileCalls' = Append(profileCalls, Val(state.resume_text))
            /\ structured_completion("CandidateProfile")
    /\ UNCHANGED <<caller, args, state, statesCreated, pdfCalls, jobCalls,
                   fitCalls>>

\* graph.py:71-86 up to the call of extract_job_description
\* (extract_job_description.py:7-29)
job_node ==
    /\ pc = "job"
    /\ node' = "job"
    /\ executed' = Append(executed, "job")
    /\ UNCHANGED <<produced, outside>>
    /\ IF state.job_description_text = <<>>
       THEN /\ Raise("ValueError", "job_node")
            /\ UNCHANGED <<jobCalls, generationCalls, globals, retry>>
       ELSE /\ jobCalls' = Append(jobCalls, state.job_description_text)
            /\ structured_completion("JobDescription")
    /\ UNCHANGED <<caller, args, state, statesCreated, pdfCalls, profileCalls,
                   fitCalls>>

\* an input check of evaluate_node that looks at the profile only
evaluate_inputs_missing_profile_only(st) == ~TruthyObj(st.candidate_profile)

\* graph.py:99: the input check of evaluate_node
evaluate_inputs_missing(st) ==
    ~TruthyObj(st.candidate_profile) \/ ~TruthyObj(st.job_description)

\* graph.py:89-108 up to the call of evaluate_fit (evaluate_fit.py:7-48);
\* fitCalls records what state["candidate_profile"] and
\* state["job_description"] held when they were passed
evaluate_node ==
    /\ pc = "evaluate"
    /\ node' = "evaluate"
    /\ executed' = Append(executed, "evaluate")
    /\ UNCHANGED <<produced, outside>>
    /\ IF evaluate_inputs_missing(state)
       THEN /\ Raise("ValueError", "evaluate_node")
            /\ UNCHANGED <<fitCalls, generationCalls, globals, retry>>
       ELSE /\ fitCalls' = Append(fitCalls, <<state.candidate_profile,
                                              state.job_description>>)
            /\ structured_completion("FitEvaluation")
    /\ UNCHANGED <<caller, args, state, statesCreated, pdfCalls, profileCalls,
                   jobCalls>>

\* a profile stage that drops the PDF bytes once the profile is stored
NodeStoresDropsBytes(n, r) ==
    CASE n = "profile" -> [state EXCEPT !.candidate_profile = Some(r),
                                        !.resume_pdf_bytes = None]
      [] n = "job" -> [state EXCEPT !.job_description = Some(r)]
      [] n = "evaluate" -> [state EXCEPT !.evaluation = Some(evaluate_fit_result(r))]

\* The rest of the node whose structured_completion returned record r:
\* extract_profile.py:25 / graph.py:67-68, extract_job_description.py:25 /
\* graph.py:85-86, evaluate_fit.py:44-53 / graph.py:107-108
NodeStores(n, r) ==
    CASE n = "profile" -> [state EXCEPT !.candidate_profile = Some(r)]
      [] n = "job" -> [state EXCEPT !.job_description = Some(r)]
      [] n = "evaluate" -> [state EXCEPT !.evaluation = Some(evaluate_fit_result(r))]

\* what the stage function of node n returns when its structured_completion
\* returned record r: extract_profile.py:25, extract_job_description.py:25,
\* evaluate_fit.py:44-53
StageReturns(n, r) == IF n = "evaluate" THEN evaluate_fit_result(r) ELSE r
\* the field of the state node n stores its stage's result in
\* (graph.py:67, graph.py:85, graph.py:107)
OutputField(n) ==
    CASE n = "profile" -> "candidate_profile"
      [] n = "job" -> "job_description"
      [] n = "evaluate" -> "evaluation"

\* llm.py:74-117: one attempt of _call_api under the retry decorator
call_api ==
    /\ pc = "call_api"
    /\ \E resp \in Responses :
        LET try == TryBody(schema, resp)
            e == IF try.exc = "none" THEN "none" ELSE ExceptClause(try.exc)
        IN  /\ transportCalls' = transportCalls + 1
            /\ attempts' = Append(attempts, try.why)
            /\ IF e = "none"
               THEN /\ generated' = try.value
                    /\ produced' = [produced EXCEPT ![OutputField(node)] =
                                        Some(StageReturns(node, try.value))]
                    /\ state' = IF caller = "agent" THEN state
                                ELSE NodeStores(node, try.value)
                    /\ Goto(After(node))
               ELSE /\ UNCHANGED <<state, generated, produced>>
                    /\ IF ~RetryIf(e)
                       THEN Raise(e, "call_api")
                       ELSE IF StopAfterAttempt(attempt_number)
                       THEN Raise(RetryExhausted(e), "call_api")
                       ELSE Goto("backoff")
    /\ UNCHANGED <<caller, node, args, statesCreated, globals, schema,
                   attempt_number, sleeps, stageCalls, generationCalls,
                   executed, outside>>

\* llm.py:77: the sleep between two attempts
backoff ==
    /\ pc = "backoff"
    /\ sleeps' = Append(sleeps, WaitExponential(attempt_number))
    /\ attempt_number' = attempt_number + 1
    /\ Goto("call_api")
    /\ UNCHANGED <<caller, node, args, state, statesCreated, globals, schema,
                   attempts, transportCalls, generated,
                   stageCalls, generationCalls, history, outside>>

\* graph.py:193-206: graph.invoke returns the final state to run_evaluation
\* a terminal check that forgets the fit evaluation
pipeline_incomplete_ignores_evaluation(final_state) ==
    \/ ~TruthyObj(final_state.candidate_profile)
    \/ ~TruthyObj(final_state.job_description)

\* graph.py:195-199: the condition under which run_evaluation refuses to
\* build a result from the final state
pipeline_incomplete(final_state) ==
    \/ ~TruthyObj(final_state.candidate_profile)
    \/ ~TruthyObj(final_state.job_description)
    \/ ~TruthyObj(final_state.evaluation)

\* graph.py:193-206: graph.invoke has returned the final state
graph_invoke_returns ==
    /\ pc = "END"
    /\ IF pipeline_incomplete(state)
       THEN Raise("ValueError", "run_evaluation")
       ELSE /\ pc' = "returned"
            /\ result' = Some(EvaluationResult(Val(state.candidate_profile),
                                               Val(state.job_description),
                                               Val(state.evaluation)))
            /\ UNCHANGED <<error, raisedIn>>
    /\ UNCHANGED <<caller, node, args, state, statesCreated, globals, retry,
                   stageCalls, generationCalls, history, outside>>

\* ---------------------------------------------- agents called directly
\* the raw texts an agent function is handed when it is called on its own
AgentTexts == {<<>>, <<"r">>}

\* extract_profile.py:7-29: extract_candidate_profile(resume_text) called
\* from outside the pipeline
extract_candidate_profile ==
    /\ pc = "idle"
    /\ caller' = "agent"
    /\ node' = "profile"
    /\ \E resume_text \in AgentTexts :
           profileCalls' = Append(profileCalls, resume_text)
    /\ structured_completion("CandidateProfile")
    /\ UNCHANGED <<args, state, statesCreated, pdfCalls, jobCalls, fitCalls,
                   history, outside>>

\* extract_job_description.py:7-29: extract_job_description(
\* job_description_text) called from outside the pipeline
extract_job_description ==
    /\ pc = "idle"
    /\ caller' = "agent"
    /\ node' = "job"
    /\ \E job_description_text \in AgentTexts :
           jobCalls' = Append(jobCalls, job_description_text)
    /\ structured_completion("JobDescription")
    /\ UNCHANGED <<args, state, statesCreated, pdfCalls, profileCalls,
                   fitCalls, history, outside>>

\* ------------------------------------------------------ concurrent runs
\* Several calls of run_evaluation under way at once.  The EvaluationState
\* dicts live in `heap`; a run refers to its dict by its position there.
\* A step is one node of one run; the stage function a node calls returns
\* a record or fails.
ConcurrentTexts == {Some(<<"r">>), Some(<<"s">>)}

\* one module-level state dict that every call of run_evaluation fills
initial_state_shared(h) == 1

\* graph.py:184-191: initial_state is a dict constructed by this call
initial_state_ref(h) == Len(h) + 1

Store(h, ref, st) ==
    IF ref > Len(h) THEN Append(h, st) ELSE [h EXCEPT ![ref] = st]

\* the records the stage function of node n returns to run r: records of
\* the same schema made for different runs are different objects
StageRecords(n, r) ==
    CASE n = "profile" ->
            {model_validate("CandidateProfile", Json({"summary"}, r, 0, FALSE))}
      [] n = "job" ->
            {model_validate("JobDescription",
                            Json({"title", "summary"}, r, 0, FALSE))}
      [] n = "evaluate" ->
            {evaluate_fit_result(
                 model_validate("FitEvaluation",
                                Json({"fit_score", "is_fit", "fit_summary"},
                                     r, sc, FALSE))) :
                sc \in {FitThreshold - 1, FitThreshold}}

\* run r ends with exception e
RunRaises(r, e) ==
    runs' = [runs EXCEPT ![r].pc = "raised", ![r].error = e,
                         ![r].touched = @ \cup ({runs[r].ref} \ {0})]

ConcurrentFrame ==
    UNCHANGED <<ctl, args, state, statesCreated, retry, stageCalls,
                generationCalls, outcome, history, http, elsewhere>>

\* graph.py:155-193: run r is called, checks its inputs, gets the graph and
\* hands graph.invoke its initial state
run_evaluation_of(r) ==
    /\ runs[r].pc = "idle"
    /\ \E t \in ConcurrentTexts, jd \in JobTextInputs :
        LET e == run_evaluation_checks(None, t, jd)
            ref == initial_state_ref(heap)
            called == [runs[r] EXCEPT
                          !.args = Some([resume_pdf_bytes |-> None,
                                         resume_text |-> t,
                                         job_description_text |-> jd])]
        IN  IF e /= "none"
            THEN /\ runs' = [runs EXCEPT ![r] =
                                [called EXCEPT !.pc = "raised", !.error = e]]
                 /\ UNCHANGED <<heap, evaluation_graph>>
            ELSE /\ evaluation_graph' = TRUE
                 /\ heap' = Store(heap, ref,
                                  EvaluationState(None, t, jd, None, None, None))
                 /\ runs' = [runs EXCEPT ![r] =
                                [called EXCEPT !.pc = "parse_resume",
                                               !.ref = ref,
                                               !.touched = {ref}]]
    /\ UNCHANGED <<client, clientsConstructed, env_api_key>>
    /\ ConcurrentFrame

\* graph.py:30-50: run r executes parse_resume_node on its state
parse_resume_node_of(r) ==
    /\ runs[r].pc = "parse_resume"
    /\ LET res == parse_resume(heap[runs[r].ref]) IN
        /\ heap' = [heap EXCEPT ![runs[r].ref] = res.state]
        /\ IF res.exc /= "none"
           THEN RunRaises(r, res.exc)
           ELSE runs' = [runs EXCEPT ![r].pc = Edge("parse_resume"),
                                     ![r].touched = @ \cup {runs[r].ref}]
    /\ UNCHANGED globals
    /\ ConcurrentFrame

\* graph.py:53-108: run r executes the stage node n on its state: the
\* node's input check, the stage function with its generation call
\* (llm.py:23-34 for the shared client), and the store of the result
StageNode(r, n) ==
    LET ref == runs[r].ref
        st == heap[ref]
        input_ok ==
            CASE n = "profile" -> Truthy(st.resume_text)
              [] n = "job" -> st.job_description_text /= <<>>
              [] n = "evaluate" -> /\ TruthyObj(st.candidate_profile)
                                   /\ TruthyObj(st.job_description)
    IN  /\ IF ~input_ok \/ (client = None /\ ~env_api_key)
           THEN /\ RunRaises(r, "ValueError")
                /\ UNCHANGED <<heap, client, clientsConstructed>>
           ELSE /\ client' = Some("OpenAI")
                /\ clientsConstructed' =
                       IF client = None THEN clientsConstructed + 1
                       ELSE clientsConstructed
                /\ \/ /\ RunRaises(r, RetryExhausted("ValueError"))
                      /\ UNCHANGED heap
                   \/ \E rec \in StageRecords(n, r) :
                        /\ heap' = [heap EXCEPT ![ref][OutputField(n)] = Some(rec)]
                        /\ runs' = [runs EXCEPT
                                       ![r].pc = Edge(n),
                                       ![r].produced[OutputField(n)] = Some(rec),
                                       ![r].touched = @ \cup {ref}]
        /\ UNCHANGED <<evaluation_graph, env_api_key>>
        /\ ConcurrentFrame

\* graph.py:53-68
profile_node_of(r) ==
    /\ runs[r].pc = "profile"
    /\ StageNode(r, "profile")
\* graph.py:71-86
job_node_of(r) ==
    /\ runs[r].pc = "job"
    /\ StageNode(r, "job")
\* graph.py:89-108
evaluate_node_of(r) ==
    /\ runs[r].pc = "evaluate"
    /\ StageNode(r, "evaluate")

\* graph.py:193-206: graph.invoke returns run r its final state
graph_invoke_returns_of(r) ==
    /\ runs[r].pc = "END"
    /\ LET final_state == heap[runs[r].ref] IN
        IF pipeline_incomplete(final_state)
        THEN RunRaises(r, "ValueError")
        ELSE runs' = [runs EXCEPT
                         ![r].pc = "returned",
                         ![r].touched = @ \cup {runs[r].ref},
                         ![r].result =
                             Some(EvaluationResult(
                                      Val(final_state.candidate_profile),
                                      Val(final_state.job_description),
                                      Val(final_state.evaluation)))]
    /\ UNCHANGED <<heap, globals>>
    /\ ConcurrentFrame

\* --------------------------------------------------------- HTTP adapters
\* Python's `a or b` on two Optional[str]
Or(a, b) == IF Truthy(a) THEN a ELSE b

\* the resume files a client uploads: declared content type ("none": not
\* declared) and bytes
Uploads ==
    {[content_type |-> "application/pdf", content |-> PdfFile(<<"a">>)],
     [content_type |-> "application/pdf", content |-> PdfFile(<<"">>)],
     [content_type |-> "application/pdf", content |-> <<>>],
     [content_type |-> "none", content |-> PdfFile(<<"a">>)],
     [content_type |-> "text/plain", content |-> PdfFile(<<"a">>)]}
Request(endpoint, resume, job_description, resume_text, job_description_text) ==
    [endpoint |-> endpoint, resume |-> resume,
     job_description |-> job_description, resume_text |-> resume_text,
     job_description_text |-> job_description_text]
\* api/app.py:37-42: the form fields of POST /evaluate
FormRequests ==
    {Request("/evaluate", u, jd, t, jt) :
        u \in {None} \cup {Some(f) : f \in Uploads},
        jd \in {None, Some(<<>>), Some(<<"j">>)},
        t \in {None, Some(<<"r">>)},
        jt \in {None, Some(<<"k">>)}}
\* api/app.py:18-22: the bodies of POST /evaluate/json
JsonRequests ==
    {Request("/evaluate/json", None, None, t, Some(jt)) :
        t \in ResumeTextInputs, jt \in JobTextInputs}

\* except clauses that answer every failure with a server error
StatusForAlwaysServerError(e) == ServerError

\* api/app.py:95-100 and 133-138: the status the except clauses answer an
\* exception of run_evaluation with
StatusFor(e) == IF e = "ValueError" THEN BadRequest ELSE ServerError

\* the handler answers 400 itself, without calling run_evaluation
Refuse(handler) ==
    /\ status_code' = BadRequest
    /\ Raise("HTTPException", handler)
    /\ UNCHANGED <<caller, node, args, state, statesCreated, globals, retry,
                   stageCalls, generationCalls, history, concurrent,
                   elsewhere>>

\* api/app.py:63-94: POST /evaluate up to its call of run_evaluation
evaluate_resume ==
    /\ request = None
    /\ \E req \in FormRequests :
        /\ request' = Some(req)
        /\ LET jd_text == Or(req.job_description, req.job_description_text)
               wrong_type ==
                   /\ req.resume /= None
                   /\ Val(req.resume).content_type \notin {"application/pdf", "none"}
               resume_pdf_bytes ==
                   IF req.resume /= None
                   THEN Some(Val(req.resume).content) ELSE None
           IN  IF \/ ~Truthy(jd_text)
                  \/ wrong_type
                  \/ ~Truthy(resume_pdf_bytes) /\ ~Truthy(req.resume_text)
               THEN pc = "idle" /\ Refuse("evaluate_resume")
               ELSE /\ run_evaluation(resume_pdf_bytes, req.resume_text,
                                      Val(jd_text))
                    /\ UNCHANGED status_code

\* api/app.py:117-132: POST /evaluate/json up to its call of run_evaluation
evaluate_resume_json ==
    /\ request = None
    /\ \E req \in JsonRequests :
        /\ request' = Some(req)
        /\ IF ~Truthy(req.job_description_text) \/ ~Truthy(req.resume_text)
           THEN pc = "idle" /\ Refuse("evaluate_resume_json")
           ELSE /\ run_evaluation(None, req.resume_text,
                                  Val(req.job_description_text))
                /\ UNCHANGED status_code

\* api/app.py:88-100 and 127-138: run_evaluation has returned to the handler
\* or raised into its except clauses
handler_responds ==
    /\ request /= None
    /\ status_code = 0
    /\ pc \in {"returned", "raised"}
    /\ status_code' = IF pc = "returned" THEN 200 ELSE StatusFor(error)
    /\ UNCHANGED <<ctl, args, state, statesCreated, globals, retry,
                   stageCalls, generationCalls, outcome, history, request,
                   concurrent, elsewhere>>

\* ------------------------------------------- the extraction stages rewired
\* The nodes of graph.py run under three wirings of profile and job: as
\* built (graph.py:130-133), job before profile, and both started before
\* either has returned.  Every wiring is given the same arguments and the
\* same outcome of each stage's generation call (`plan`), and works on a
\* state dict of its own.
RewiredResumes ==
    {<<None, Some(<<"r">>)>>, <<Some(PdfFile(<<"a">>)), None>>,
     <<Some(PdfFile(<<"">>)), None>>, <<Some(<<>>), Some(<<>>)>>}

\* how the generation call of stage n ends: the retries are exhausted
\* (None) or a record is returned
StageOutcomes(n) == {None} \cup {Some(rec) : rec \in StageRecords(n, 1)}

\* whether wiring l lets extraction node n start once the nodes in `done`
\* have returned
MayStart(l, n, done) ==
    CASE l = "profile_then_job" ->
            IF n = "profile" THEN done = <<>> ELSE done = <<"profile">>
      [] l = "job_then_profile" ->
            IF n = "job" THEN done = <<>> ELSE done = <<"job">>
      [] l = "parallel" -> TRUE

\* a job node that builds a fresh state dict holding only its own output
StoreInResetsOthers(st, n, rec) ==
    IF n = "job"
    THEN [st EXCEPT !.candidate_profile = None, !.job_description = Some(rec)]
    ELSE [st EXCEPT ![OutputField(n)] = Some(rec)]

\* graph.py:67, 85, 107: state[<the node's own key>] = <the record>
StoreIn(st, n, rec) == [st EXCEPT ![OutputField(n)] = Some(rec)]

\* graph.py:63-64 and 81-82: the input check of an extraction node
extraction_input_missing(st, n) ==
    IF n = "profile" THEN ~Truthy(st.resume_text)
    ELSE st.job_description_text = <<>>

LaneRaises(l, e) ==
    lanes' = [lanes EXCEPT ![l].pc = "raised", ![l].error = e,
                           ![l].running = {}]

RewiredFrame ==
    UNCHANGED <<ctl, args, state, statesCreated, globals, retry, stageCalls,
                generationCalls, outcome, history, http, concurrent, threads>>

\* graph.py:155-193: run_evaluation is called with the same arguments under
\* every wiring
run_evaluation_rewired ==
    /\ plan = None
    /\ \E bt \in RewiredResumes, jd \in JobTextInputs,
          p \in StageOutcomes("profile"), j \in StageOutcomes("job"),
          f \in StageOutcomes("evaluate") :
        LET e == run_evaluation_checks(bt[1], bt[2], jd) IN
        /\ plan' = Some([resume_pdf_bytes |-> bt[1], resume_text |-> bt[2],
                         job_description_text |-> jd,
                         outcomes |-> [profile |-> p, job |-> j,
                                       evaluate |-> f]])
        /\ lanes' = [l \in Lanes |->
                        IF e /= "none"
                        THEN [NoLane EXCEPT !.pc = "raised", !.error = e]
                        ELSE [NoLane EXCEPT
                                 !.pc = "parse_resume",
                                 !.state = EvaluationState(bt[1], bt[2], jd,
                                                           None, None, None)]]
    /\ RewiredFrame

\* graph.py:30-50
parse_resume_node_in(l) ==
    /\ lanes[l].pc = "parse_resume"
    /\ LET res == parse_resume(lanes[l].state) IN
        IF res.exc /= "none"
        THEN LaneRaises(l, res.exc)
        ELSE lanes' = [lanes EXCEPT ![l].pc = "extract",
                                    ![l].state = res.state]
    /\ UNCHANGED plan
    /\ RewiredFrame

\* graph.py:53-66 and 71-84: an extraction node is entered, checks its
\* input and calls its stage function, which gets the client (llm.py:61)
extraction_node_starts(l, n) ==
    /\ lanes[l].pc = "extract"
    /\ n \notin lanes[l].running
    /\ \A i \in 1..Len(lanes[l].done) : lanes[l].done[i] /= n
    /\ MayStart(l, n, lanes[l].done)
    /\ IF extraction_input_missing(lanes[l].state, n) \/ ~env_api_key
       THEN LaneRaises(l, "ValueError")
       ELSE lanes' = [lanes EXCEPT ![l].running = @ \cup {n}]
    /\ UNCHANGED plan
    /\ RewiredFrame

\* graph.py:66-68 and 84-86: the stage function returns its record, which
\* the node stores, or its generation call has failed
extraction_node_returns(l, n) ==
    /\ lanes[l].pc = "extract"
    /\ n \in lanes[l].running
    /\ LET o == Val(plan).outcomes[n]
           done == Append(lanes[l].done, n)
       IN  IF o = None
           THEN LaneRaises(l, RetryExhausted("ValueError"))
           ELSE lanes' = [lanes EXCEPT
                             ![l].state = StoreIn(@, n, Val(o)),
                             ![l].running = @ \ {n},
                             ![l].done = done,
                             ![l].pc = IF Len(done) = 2 THEN "evaluate"
                                       ELSE "extract"]
    /\ UNCHANGED plan
    /\ RewiredFrame

\* graph.py:89-108
evaluate_node_in(l) ==
    /\ lanes[l].pc = "evaluate"
    /\ LET o == Val(plan).outcomes["evaluate"] IN
        IF evaluate_inputs_missing(lanes[l].state)
        THEN LaneRaises(l, "ValueError")
        ELSE IF o = None
        THEN LaneRaises(l, RetryExhausted("ValueError"))
        ELSE lanes' = [lanes EXCEPT
                          ![l].state = StoreIn(@, "evaluate", Val(o)),
                          ![l].pc = "END"]
    /\ UNCHANGED plan
    /\ RewiredFrame

\* graph.py:193-206
graph_invoke_returns_in(l) ==
    /\ lanes[l].pc = "END"
    /\ LET final_state == lanes[l].state IN
        IF pipeline_incomplete(final_state)
        THEN LaneRaises(l, "ValueError")
        ELSE lanes' = [lanes EXCEPT
                          ![l].pc = "returned",
                          ![l].result =
                              Some(EvaluationResult(
                                       Val(final_state.candidate_profile),
                                       Val(final_state.job_description),
                                       Val(final_state.evaluation)))]
    /\ UNCHANGED plan
    /\ RewiredFrame

\* ------------------------------------------ get_openai_client in threads
\* llm.py:23-34 called by several threads.  Nothing in llm.py serialises
\* the callers, so a thread may be preempted between the test of _client,
\* the construction with its assignment, and the read that return makes.
\* The k-th instance constructed is <<"OpenAI", k>>.
ClientFrame ==
    UNCHANGED <<ctl, args, state, statesCreated, evaluation_graph,
                env_api_key, retry, stageCalls, generationCalls, outcome,
                history, http, concurrent, rewired>>

\* llm.py:30: if _client is None
get_openai_client_tests(t) ==
    /\ threads[t].pc = "idle"
    /\ threads' = [threads EXCEPT ![t].pc = IF client = None THEN "construct"
                                            ELSE "return"]
    /\ UNCHANGED <<client, clientsConstructed>>
    /\ ClientFrame

\* llm.py:31-32: api_key = get_openai_api_key() (config.py:12-28 raises
\* ValueError without a key); _client = OpenAI(api_key=api_key)
get_openai_client_constructs(t) ==
    /\ threads[t].pc = "construct"
    /\ IF ~env_api_key
       THEN /\ threads' = [threads EXCEPT ![t].pc = "raised",
                                          ![t].error = "ValueError"]
            /\ UNCHANGED <<client, clientsConstructed>>
       ELSE /\ clientsConstructed' = clientsConstructed + 1
            /\ client' = Some(<<"OpenAI", clientsConstructed + 1>>)
            /\ threads' = [threads EXCEPT ![t].pc = "return"]
    /\ ClientFrame

\* llm.py:34: return _client
get_openai_client_returns(t) ==
    /\ threads[t].pc = "return"
    /\ threads' = [threads EXCEPT ![t].pc = "returned", ![t].got = client]
    /\ UNCHANGED <<client, clientsConstructed>>
    /\ ClientFrame

Next ==
    \/ RunEvaluation
    \/ CallNode
    \/ parse_resume_node
    \/ profile_node
    \/ job_node
    \/ evaluate_node
    \/ call_api
    \/ backoff
    \/ graph_invoke_returns

Spec == Init /\ [][Next]_vars

\* graph.py:155-160: run_evaluation called with one of the few bytes
\* values and any text
RunEvaluationStarts ==
    /\ \E b \in DirectBytes, t \in ResumeTextInputs, jd \in JobTextInputs :
           run_evaluation(b, t, jd)
    /\ UNCHANGED http

\* one run of run_evaluation
NextRun ==
    \/ RunEvaluationStarts
    \/ parse_resume_node
    \/ profile_node
    \/ job_node
    \/ evaluate_node
    \/ call_api
    \/ backoff
    \/ graph_invoke_returns

\* A run where what has been started goes on: the interpreter executes
\* the next node, extract_text_from_pdf and the transport call return (or
\* raise), and the sleep between two attempts ends.  Nothing obliges a
\* caller to start a run.
Progress ==
    /\ WF_vars(parse_resume_node)
    /\ WF_vars(profile_node)
    /\ WF_vars(job_node)
    /\ WF_vars(evaluate_node)
    /\ WF_vars(call_api)
    /\ WF_vars(backoff)
    /\ WF_vars(graph_invoke_returns)

SpecProgress == Init /\ [][NextRun]_vars /\ Progress

\* the pipeline behind the HTTP endpoints
NextApi ==
    \/ evaluate_resume
    \/ evaluate_resume_json
    \/ parse_resume_node
    \/ profile_node
    \/ job_node
    \/ evaluate_node
    \/ call_api
    \/ backoff
    \/ graph_invoke_returns
    \/ handler_responds

SpecApi == Init /\ [][NextApi]_vars

\* calls of run_evaluation under way at once
NextConcurrent ==
    \/ \E r \in Runs : run_evaluation_of(r)
    \/ \E r \in Runs : parse_resume_node_of(r)
    \/ \E r \in Runs : profile_node_of(r)
    \/ \E r \in Runs : job_node_of(r)
    \/ \E r \in Runs : evaluate_node_of(r)
    \/ \E r \in Runs : graph_invoke_returns_of(r)

SpecConcurrent == Init /\ [][NextConcurrent]_vars

\* the extraction agents called on their own
NextAgents ==
    \/ extract_candidate_profile
    \/ extract_job_description
    \/ call_api
    \/ backoff

SpecAgents == Init /\ [][NextAgents]_vars

\* the pipeline under the three wirings of its extraction stages
NextRewired ==
    \/ run_evaluation_rewired
    \/ \E l \in Lanes : parse_resume_node_in(l)
    \/ \E l \in Lanes, n \in Extraction : extraction_node_starts(l, n)
    \/ \E l \in Lanes, n \in Extraction : extraction_node_returns(l, n)
    \/ \E l \in Lanes : evaluate_node_in(l)
    \/ \E l \in Lanes : graph_invoke_returns_in(l)

SpecRewired == Init /\ [][NextRewired]_vars

\* threads calling get_openai_client
NextClient ==
    \/ \E t \in Threads : get_openai_client_tests(t)
    \/ \E t \in Threads : get_openai_client_constructs(t)
    \/ \E t \in Threads : get_openai_client_returns(t)

SpecClient == Init /\ [][NextClient]_vars

\* ================================================================= claims
\* the run under way is a call of run_evaluation with these arguments
Called == caller = "run_evaluation" /\ args /= None
Arg == Val(args)
\* the running or last structured_completion gave up after MaxAttempts
\* failed attempts
Exhausted ==
    /\ pc = "raised"
    /\ raisedIn = "call_api"
    /\ Len(attempts) = MaxAttempts
NoGenerationCall ==
    /\ generationCalls = <<>>
    /\ profileCalls = <<>>
    /\ jobCalls = <<>>
    /\ fitCalls = <<>>
    /\ transportCalls = 0
\* the first k attempts ended as `why` and there are exactly k of them
AllEnded(why, k) ==
    /\ Len(attempts) = k
    /\ \A i \in 1..k : attempts[i] = why

\* C1: every FitEvaluation that evaluate_fit returns has
\* is_fit = (fit_score >= 70), whatever flag the generation call returned:
\* the score is the generated one, 70 gives true, 69 gives false, and a
\* generated (75, false) is returned as (75, true).
C1_IsFitRecomputed ==
    state.evaluation /= None =>
        LET ev == Val(state.evaluation) IN
        /\ ev.fit_score = generated.fit_score
        /\ ev.is_fit = (ev.fit_score >= 70)
        /\ (generated.fit_score = 70 => ev.is_fit)
        /\ (generated.fit_score = 69 => ~ev.is_fit)
        /\ (generated.fit_score = 75 /\ ~generated.is_fit =>
                ev.fit_score = 75 /\ ev.is_fit)
C1_Witness ==
    /\ state.evaluation /= None
    /\ generated.fit_score = 75
    /\ ~generated.is_fit
    /\ Val(state.evaluation).is_fit

C3_SucceedsAfterMalformed ==
    \A k \in 0..2 :
        /\ AllEnded("json_error", k) /\ k >= 1 =>
              /\ error = "none"
              /\ pc \in {"call_api", "backoff"}
              /\ transportCalls = k
        /\ /\ Len(attempts) = k + 1
           /\ \A i \in 1..k : attempts[i] = "json_error"
           /\ attempts[k + 1] = "ok"
           => /\ error = "none"
              /\ transportCalls = k + 1
              /\ generated /= NoRecord
              /\ generated.schema = schema
              /\ state = NodeStores(node, generated)
C3_Witness ==
    /\ attempts = <<"json_error", "json_error", "ok">>
    /\ transportCalls = 3
    /\ generated.schema = "CandidateProfile"
    /\ state.candidate_profile = Some(generated)

\* C4 as stated: when all 3 attempts end in a recoverable error, the error
\* that reaches the caller is that recoverable error itself (a ValueError),
\* not a wrapper.
C4_FinalErrorPropagates ==
    Exhausted => error = "ValueError"

\* C5: when a stage's generation call fails on all 3 attempts,
\* run_evaluation fails there and no later stage is invoked: after a
\* profile failure job extraction and fit evaluation are never called,
\* after a job failure fit evaluation is never called.
C5_FailureStopsPipeline ==
    (Called /\ Len(attempts) = 3 /\ attempts[3] /= "ok") =>
        /\ pc = "raised"
        /\ error /= "none"
        /\ result = None
        /\ schema = generationCalls[Len(generationCalls)]
        /\ (schema = "CandidateProfile" =>
                /\ node = "profile"
                /\ jobCalls = <<>>
                /\ fitCalls = <<>>
                /\ generationCalls = <<"CandidateProfile">>)
        /\ (schema = "JobDescription" =>
                /\ node = "job"
                /\ fitCalls = <<>>
                /\ generationCalls = <<"CandidateProfile", "JobDescription">>)
C5_Witness ==
    /\ Called
    /\ Exhausted
    /\ AllEnded("json_error", 3)
    /\ schema = "CandidateProfile"
    /\ jobCalls = <<>>

\* C6: run_evaluation called with an empty job_description_text fails with
\* ValueError before any stage executes, whatever the resume inputs: no
\* pipeline state is created, the graph is not fetched, the PDF extractor
\* and the generation client are not called.
C6_EmptyJobTextFailsFirst ==
    (Called /\ Arg.job_description_text = <<>>) =>
        /\ pc = "raised"
        /\ error = "ValueError"
        /\ raisedIn = "run_evaluation"
        /\ statesCreated = 0
        /\ state = NoState
        /\ ~evaluation_graph
        /\ node = "none"
        /\ pdfCalls = <<>>
        /\ NoGenerationCall
C6_Witness ==
    /\ Called
    /\ Arg.job_description_text = <<>>
    /\ Truthy(Arg.resume_pdf_bytes)
    /\ Truthy(Arg.resume_text)
    /\ pc = "raised"

\* C7: when neither resume_text nor resume_pdf_bytes is present (None or
\* empty), the run fails with ValueError and neither the PDF extractor nor
\* a generation call is invoked: at the entry of run_evaluation, and in
\* parse_resume_node when it is handed such a state.
C7_NoResumeInputFails ==
    /\ (Called /\ ~Truthy(Arg.resume_text) /\ ~Truthy(Arg.resume_pdf_bytes)) =>
          /\ pc = "raised"
          /\ error = "ValueError"
          /\ raisedIn = "run_evaluation"
          /\ pdfCalls = <<>>
          /\ NoGenerationCall
    /\ (/\ node = "parse_resume"
        /\ ~Truthy(state.resume_text)
        /\ ~Truthy(state.resume_pdf_bytes)) =>
          /\ pc = "raised"
          /\ error = "ValueError"
          /\ raisedIn = "parse_resume_node"
          /\ pdfCalls = <<>>
          /\ NoGenerationCall
C7_Witness ==
    /\ caller = "direct"
    /\ node = "parse_resume"
    /\ state.resume_text = Some(<<>>)
    /\ state.resume_pdf_bytes = None
    /\ state.job_description_text /= <<>>
    /\ pc = "raised"

\* a PDF file none of whose pages yields text
NoPageYields(bytes) ==
    \A i \in 2..Len(bytes) : bytes[i] \in {"", "raise"}
\* C8: when no resume_text is given and the PDF bytes yield no extractable
\* text, run_evaluation fails in the resolve-text step and no generation
\* call is ever made: the profile, job and fit stages are never invoked.
C8_EmptyPdfFailsBeforeGeneration ==
    (/\ Called
     /\ ~Truthy(Arg.resume_text)
     /\ Truthy(Arg.resume_pdf_bytes)
     /\ NoPageYields(Val(Arg.resume_pdf_bytes))
     /\ Arg.job_description_text /= <<>>) =>
        /\ pc \in {"parse_resume", "raised"}
        /\ pc = "raised" =>
              /\ error = "ValueError"
              /\ raisedIn = "extract_text_from_pdf"
              /\ pdfCalls = <<Val(Arg.resume_pdf_bytes)>>
        /\ result = None
        /\ NoGenerationCall
C8_Witness ==
    /\ Called
    /\ Arg.resume_text = None
    /\ Arg.resume_pdf_bytes = Some(PdfFile(<<"", "raise">>))
    /\ pc = "raised"
    /\ raisedIn = "extract_text_from_pdf"

\* C9: when resume_text is already non-empty, the resolve-text step leaves
\* every field of the pipeline state unchanged and does not call the PDF
\* extractor, also when resume_pdf_bytes is supplied with the text; in a
\* run of run_evaluation the PDF extractor is then never called and the
\* profile stage receives exactly the caller's resume_text.
C9_TextPassesThrough ==
    /\ [][(pc = "parse_resume" /\ Truthy(state.resume_text)) =>
            /\ state' = state
            /\ pdfCalls' = pdfCalls
            /\ error' = "none"]_vars
    /\ []((Called /\ Truthy(Arg.resume_text)) =>
            /\ pdfCalls = <<>>
            /\ statesCreated = 1 => state.resume_text = Arg.resume_text
            /\ pc \notin {"raised", "parse_resume", "profile"} \/ raisedIn = "call_api" =>
                  profileCalls = <<Val(Arg.resume_text)>>)
C9_Witness ==
    /\ Called
    /\ Truthy(Arg.resume_text)
    /\ Truthy(Arg.resume_pdf_bytes)
    /\ Readable(Val(Arg.resume_pdf_bytes))
    /\ ~NoPageYields(Val(Arg.resume_pdf_bytes))
    /\ profileCalls = <<Val(Arg.resume_text)>>
    /\ pc = "job"

\* C10: when resume_text is absent and resume_pdf_bytes is present, the
\* PDF extractor is called exactly once, with those bytes; when it returns
\* a text, that text is in resume_text before the profile stage starts and
\* the profile stage is called with exactly that text.
C10_PdfTextReachesProfile ==
    (/\ Called
     /\ ~Truthy(Arg.resume_text)
     /\ Truthy(Arg.resume_pdf_bytes)
     /\ Arg.job_description_text /= <<>>) =>
        LET bytes == Val(Arg.resume_pdf_bytes)
            extracted == extract_text_from_pdf(bytes)
        IN  /\ pdfCalls = IF pc = "parse_resume" THEN <<>> ELSE <<bytes>>
            /\ pc = "parse_resume" => profileCalls = <<>>
            /\ (pc /= "parse_resume" /\ extracted.exc = "none") =>
                  /\ state.resume_text = Some(extracted.value)
                  /\ pc /= "profile" => profileCalls = <<extracted.value>>
                  /\ raisedIn /= "extract_text_from_pdf"
            /\ bytes = PdfFile(<<"a", "raise">> ) /\ profileCalls /= <<>> =>
                  profileCalls = << <<"a">> >>
            /\ bytes = PdfFile(<<"b", "a">>) /\ profileCalls /= <<>> =>
                  profileCalls = << <<"b", "\n\n", "a">> >>
C10_Witness ==
    /\ Called
    /\ Arg.resume_text = None
    /\ Arg.resume_pdf_bytes = Some(PdfFile(<<"b", "a">>))
    /\ pdfCalls = <<PdfFile(<<"b", "a">>)>>
    /\ state.resume_text = Some(<<"b", "\n\n", "a">>)
    /\ profileCalls = << <<"b", "\n\n", "a">> >>
    /\ pc = "call_api"
\* ---------------------------------------------------------------- C11
\* the order in which build_evaluation_graph wires the nodes
StageOrder == <<"parse_resume", "profile", "job", "evaluate">>
IsPrefix(s, t) == Len(s) <= Len(t) /\ \A i \in 1..Len(s) : s[i] = t[i]

\* C11: in a run of run_evaluation the nodes execute in the fixed order
\* parse_resume, profile, job, evaluate and never otherwise (what has been
\* executed is always a prefix of that order, so nothing is repeated or
\* skipped); a stage starts only when the one before it has stored its
\* result; and a run that returned executed each of the four exactly once,
\* with exactly one profile, one job and one fit call in that order.
C11_FixedStageOrder ==
    Called =>
        /\ IsPrefix(executed, StageOrder)
        /\ Len(executed) >= 2 => Truthy(state.resume_text)
        /\ Len(executed) >= 3 =>
               /\ state.candidate_profile /= None
               /\ state.candidate_profile = produced.candidate_profile
        /\ Len(executed) >= 4 =>
               /\ state.job_description /= None
               /\ state.job_description = produced.job_description
        /\ pc \in {"END", "returned"} =>
               /\ executed = StageOrder
               /\ state.evaluation /= None
               /\ Len(pdfCalls) <= 1
               /\ Len(profileCalls) = 1
               /\ Len(jobCalls) = 1
               /\ Len(fitCalls) = 1
               /\ generationCalls =
                      <<"CandidateProfile", "JobDescription", "FitEvaluation">>

\* a run on a PDF has returned after the four stages
C11_Witness ==
    /\ Called
    /\ pc = "returned"
    /\ executed = StageOrder
    /\ Len(pdfCalls) = 1
    /\ Len(fitCalls) = 1

\* ---------------------------------------------------------------- C12
\* the final states graph.invoke could hand back: each stage output there
\* or not
FinalStates ==
    {EvaluationState(None, Some(<<"r">>), <<"j">>, p, j, e) :
        p \in {None, Some(model_validate("CandidateProfile",
                                         Json({"summary"}, 1, 0, FALSE)))},
        j \in {None, Some(model_validate("JobDescription",
                                         Json({"title", "summary"}, 1, 0, FALSE)))},
        e \in {None, Some(model_validate("FitEvaluation",
                                         Json({"fit_score", "is_fit", "fit_summary"},
                                              1, 75, TRUE)))}}

\* C12: run_evaluation returns a result only from a final state that holds
\* the candidate profile, the job description and the evaluation, and the
\* result is exactly the three records this run's profile, job and fit
\* stages returned; a final state lacking any of the three is refused by
\* the terminal check (a ValueError, never a partial result).
C12_ResultOnlyWhenComplete ==
    /\ (Called /\ result /= None) =>
           /\ pc = "returned"
           /\ ~pipeline_incomplete(state)
           /\ \A f \in {"candidate_profile", "job_description", "evaluation"} :
                  state[f] /= None /\ produced[f] = state[f]
           /\ Val(result) = EvaluationResult(Val(produced.candidate_profile),
                                             Val(produced.job_description),
                                             Val(produced.evaluation))
           /\ Len(profileCalls) = 1 /\ Len(jobCalls) = 1 /\ Len(fitCalls) = 1
    /\ (Called /\ pc = "returned") => result /= None
    /\ (Called /\ pc = "raised") => result = None
    /\ \A st \in FinalStates :
           pipeline_incomplete(st) <=>
               \E f \in {"candidate_profile", "job_description", "evaluation"} :
                   st[f] = None

\* a run has returned the aggregate of its three stage outputs
C12_Witness ==
    /\ Called
    /\ result /= None
    /\ produced.evaluation /= None
    /\ Val(result).evaluation = Val(produced.evaluation)
    /\ Val(result).candidate_profile = Val(produced.candidate_profile)

\* ---------------------------------------------------------------- C13
InRange(score) == score >= MinScore /\ score <= MaxScore

\* C13: every FitEvaluation that structured_completion returns, and every
\* evaluation a stage stores, has a fit_score within 0..100; a generated
\* object whose fit_score is outside that range fails validation with a
\* ValueError the retry policy retries, so the attempt returns nothing
\* (no clamped record), another attempt follows unless it was the third,
\* and an in-range score is returned as generated: whenever the fit
\* stage is about to make an attempt, this is what each object the
\* service may answer with leads to.
C13_ScoreInRangeOrRejected ==
    /\ generated.schema = "FitEvaluation" => InRange(generated.fit_score)
    /\ state.evaluation /= None => InRange(Val(state.evaluation).fit_score)
    /\ produced.evaluation /= None => InRange(Val(produced.evaluation).fit_score)
    /\ (pc = "call_api" /\ schema = "FitEvaluation") =>
           /\ \A j \in FitJson :
                  TryBody(schema, [kind |-> "json", json |-> j]) =
                      IF InRange(j.fit_score)
                      THEN [exc |-> "none", why |-> "ok",
                            value |-> [schema |-> "FitEvaluation", id |-> j.id,
                                       fit_score |-> j.fit_score,
                                       is_fit |-> j.is_fit]]
                      ELSE [exc |-> "ValueError", why |-> "range_error",
                            value |-> NoRecord]
           /\ \A resp \in Responses :
                  resp.json \notin FitJson =>
                      TryBody(schema, resp).why /= "range_error"
           /\ RetryIf(ExceptClause("ValueError"))
    /\ (attempts /= <<>> /\ attempts[Len(attempts)] = "range_error") =>
           /\ schema = "FitEvaluation"
           /\ generated = NoRecord
           /\ state.evaluation = None
           /\ produced.evaluation = None
           /\ Len(attempts) < MaxAttempts =>
                  /\ pc \in {"backoff", "call_api"}
                  /\ pc = "call_api" => attempt_number = Len(attempts) + 1
                  /\ error = "none"
           /\ Len(attempts) = MaxAttempts =>
                  pc = "raised" /\ raisedIn = "call_api"

\* a score out of range was rejected and the next attempt returned the
\* highest admissible score
C13_Witness ==
    /\ schema = "FitEvaluation"
    /\ attempts = <<"range_error", "ok">>
    /\ generated.fit_score = MaxScore
    /\ sleeps = <<WaitExponential(1)>>

\* ---------------------------------------------------------------- C14
\* the run failed on what the caller passed in: the entry checks of
\* run_evaluation, the input check of parse_resume_node, or a PDF that
\* gave no text
PreconditionFailure ==
    \/ raisedIn = "run_evaluation" /\ statesCreated = 0
    \/ raisedIn = "parse_resume_node"
    \/ raisedIn = "extract_text_from_pdf"

\* C14 (as claimed): a run of run_evaluation fails with ValueError only for
\* missing or invalid caller inputs; every other failure has another
\* class.
C14_ValueErrorOnlyForInputs ==
    (Called /\ pc = "raised" /\ error = "ValueError") => PreconditionFailure

\* C14 (amended): a run of run_evaluation fails with ValueError for
\* missing or invalid caller inputs and also for a missing API key; the
\* only failure of another class is a generation call whose three
\* attempts all failed, raised as RetryError; the terminal check of
\* run_evaluation never fails.
C14_ErrorClasses ==
    (Called /\ pc = "raised") =>
        /\ error \in {"ValueError", "RetryError"}
        /\ error = "RetryError" <=> raisedIn = "call_api"
        /\ raisedIn = "call_api" => Exhausted
        /\ error = "ValueError" <=>
               (PreconditionFailure \/ raisedIn = "get_openai_api_key")
        /\ raisedIn = "get_openai_api_key" =>
               /\ ~env_api_key
               /\ client = None
               /\ transportCalls = 0
               /\ ~PreconditionFailure
        /\ raisedIn = "run_evaluation" => statesCreated = 0

\* a run with a valid resume and job text has failed with ValueError in
\* the profile stage because no API key is configured
C14_Witness ==
    /\ Called
    /\ pc = "raised"
    /\ error = "ValueError"
    /\ raisedIn = "get_openai_api_key"
    /\ executed = <<"parse_resume", "profile">>
    /\ Truthy(state.resume_text)
    /\ Arg.job_description_text /= <<>>

\* ---------------------------------------------------------------- C15
Req == Val(request)
\* the request lacks a job text, or lacks a resume input
MissingInput ==
    IF Req.endpoint = "/evaluate"
    THEN \/ ~Truthy(Req.job_description) /\ ~Truthy(Req.job_description_text)
         \/ /\ Req.resume = None \/ Val(Req.resume).content = <<>>
            /\ ~Truthy(Req.resume_text)
    ELSE ~Truthy(Req.job_description_text) \/ ~Truthy(Req.resume_text)

C16_JoinsYieldingPages ==
    (pdfCalls /= <<>> /\ Readable(pdfCalls[1])) =>
        LET pages == Pages(pdfCalls[1])
            Yielding == {i \in 1..Len(pages) : pages[i] \notin {"", "raise"}}
            n == Cardinality(Yielding)
            Rank(i) == Cardinality({j \in Yielding : j <= i})
            failed == pc = "raised" /\ raisedIn = "extract_text_from_pdf"
        IN  /\ failed <=> n = 0
            /\ failed => error = "ValueError"
            /\ ~failed =>
                   /\ state.resume_text /= None
                   /\ LET text == Val(state.resume_text) IN
                          /\ Len(text) = 2 * n - 1
                          /\ \A i \in Yielding : text[2 * Rank(i) - 1] = pages[i]
                          /\ \A k \in 1..(n - 1) : text[2 * k] = Sep

\* the first page raised, the second yielded text, and the text of the
\* second alone was returned
C16_Witness ==
    /\ pdfCalls = <<PdfFile(<<"raise", "b">>)>>
    /\ state.resume_text = Some(<<"b">>)
    /\ executed = <<"parse_resume">>
    /\ error = "none"

\* ---------------------------------------------------------------- C18
\* a call of structured_completion has been made and is over
Finished == generationCalls /= <<>> /\ pc \notin {"call_api", "backoff"}

\* C18 (as claimed): a call of structured_completion that is over made at
\* least 1 and at most 3 transport calls, exactly 1 when the first
\* response was valid.
C18_OneToThreeTransportCalls ==
    Finished =>
        /\ transportCalls >= 1
        /\ transportCalls <= MaxAttempts
        /\ (attempts /= <<>> /\ attempts[1] = "ok") => transportCalls = 1

\* C18 (amended): a call of structured_completion never makes more than 3
\* transport calls and makes exactly 1 when the first response is valid;
\* a call that is over made at least 1, unless it failed for want of an
\* API key, which happens before any transport call.
C18_TransportCallsBounded ==
    /\ transportCalls <= MaxAttempts
    /\ transportCalls = Len(attempts)
    /\ transportCalls = MaxAttempts => pc \notin {"call_api", "backoff"}
    /\ (attempts /= <<>> /\ attempts[1] = "ok") =>
           transportCalls = 1 /\ pc \notin {"call_api", "backoff"}
    /\ Finished =>
           IF raisedIn = "get_openai_api_key"
           THEN /\ transportCalls = 0
                /\ pc = "raised"
                /\ error = "ValueError"
                /\ ~env_api_key
           ELSE transportCalls >= 1

\* the job stage's call was answered three times with an object lacking
\* required fields: three transport calls, then the failure
C18_Witness ==
    /\ Finished
    /\ schema = "JobDescription"
    /\ AllEnded("validation_error", MaxAttempts)
    /\ transportCalls = MaxAttempts
    /\ pc = "raised"

\* ---------------------------------------------------------------- C19
\* C19: the wait after failed attempt n (n = 1, 2) is
\* max(2, min(10, 1 * 2^(n-1))) seconds, which is 2 seconds both times; a
\* transport call other than the first is made only when the wait after
\* the attempt before it is over; no wait follows the last attempt, so a
\* call that failed three times has waited exactly twice.
C19_WaitsBetweenAttempts ==
    /\ \A n \in 1..Len(sleeps) :
           /\ sleeps[n] = Max(WaitMin, Min(WaitMax, WaitMultiplier * 2 ^ (n - 1)))
           /\ sleeps[n] = 2
    /\ Len(sleeps) <= MaxAttempts - 1
    /\ pc = "call_api" =>
           /\ Len(sleeps) = Len(attempts)
           /\ attempt_number = Len(attempts) + 1
    /\ pc = "backoff" =>
           /\ Len(sleeps) = Len(attempts) - 1
           /\ attempts[Len(attempts)] /= "ok"
    /\ (pc \notin {"call_api", "backoff"} /\ attempts /= <<>>) =>
           Len(sleeps) = Len(attempts) - 1
    /\ Exhausted => Len(sleeps) = MaxAttempts - 1

\* the fit stage's call failed three times, having waited 2 s and 2 s
C19_Witness ==
    /\ Exhausted
    /\ schema = "FitEvaluation"
    /\ sleeps = <<2, 2>>
    /\ Len(attempts) = MaxAttempts

\* ---------------------------------------------------------------- C20
\* the raw text the agent called on its own was handed
AgentText == IF node = "profile" THEN profileCalls[1] ELSE jobCalls[1]

\* C20: extract_candidate_profile and extract_job_description, handed an
\* empty raw text, fail with a caller error (ValueError) and
\* structured_completion is never called: no generation call, no
\* transport call.
C20_EmptyTextNeverReachesGeneration ==
    (caller = "agent" /\ AgentText = <<>>) =>
        /\ pc = "raised"
        /\ error = "ValueError"
        /\ generationCalls = <<>>
        /\ transportCalls = 0

\* ---------------------------------------------------------------- C17
OutputFields == {"candidate_profile", "job_description", "evaluation"}

\* C17: calls of run_evaluation under way at the same time do not
\* interfere, however their steps interleave: each works on a state dict
\* of its own, the only one its nodes read or write; that dict holds the
\* inputs of that call and, as stage outputs, exactly what the stage
\* functions returned to that call; and the result a call returns is made
\* of the three records its own stages returned.
C17_RunsDoNotInterfere ==
    \A r \in Runs :
        LET run == runs[r] IN
        /\ \A q \in Runs \ {r} :
               /\ run.ref /= 0 => runs[q].ref /= run.ref
               /\ run.touched \cap runs[q].touched = {}
        /\ run.touched \subseteq {run.ref} \ {0}
        /\ run.ref /= 0 =>
               /\ run.ref \in 1..Len(heap)
               /\ heap[run.ref].resume_text = Val(run.args).resume_text
               /\ heap[run.ref].job_description_text =
                      Val(run.args).job_description_text
               /\ \A f \in OutputFields :
                      /\ heap[run.ref][f] = run.produced[f]
                      /\ run.produced[f] /= None => Val(run.produced[f]).id = r
        /\ run.result /= None =>
               /\ run.pc = "returned"
               /\ \A f \in OutputFields : run.produced[f] /= None
               /\ Val(run.result) =
                      EvaluationResult(Val(run.produced.candidate_profile),
                                       Val(run.produced.job_description),
                                       Val(run.produced.evaluation))
        /\ run.pc = "returned" => run.result /= None

\* run 2 started first and is still at its job stage when run 1, started
\* after it on a different resume, has returned its result
C17_Witness ==
    /\ runs[1].pc = "returned"
    /\ runs[1].result /= None
    /\ runs[1].ref = 2
    /\ runs[2].ref = 1
    /\ runs[2].pc = "job"
    /\ runs[2].produced.candidate_profile /= None
    /\ Val(runs[1].args).resume_text /= Val(runs[2].args).resume_text

\* ---------------------------------------------------------------- C21
\* C21: whenever evaluate_fit is called, the state holds a candidate
\* profile and a job description and these are what it is passed; in a run
\* of run_evaluation they are the records this run's profile and job
\* stages returned; and evaluate_node handed a state lacking either fails
\* with ValueError without calling evaluate_fit or making a generation or
\* transport call.
C21_FitStageInputsPresent ==
    /\ \A i \in 1..Len(fitCalls) :
           /\ fitCalls[i][1] /= None
           /\ fitCalls[i][2] /= None
           /\ fitCalls[i] = <<state.candidate_profile, state.job_description>>
    /\ (Called /\ fitCalls /= <<>>) =>
           /\ fitCalls = <<<<produced.candidate_profile,
                             produced.job_description>>>>
           /\ Len(profileCalls) = 1
           /\ Len(jobCalls) = 1
    /\ (node = "evaluate" /\ caller /= "agent"
          /\ (state.candidate_profile = None \/ state.job_description = None)) =>
           /\ pc = "raised"
           /\ error = "ValueError"
           /\ raisedIn = "evaluate_node"
           /\ fitCalls = <<>>
           /\ \A i \in 1..Len(generationCalls) :
                  generationCalls[i] /= "FitEvaluation"
           /\ transportCalls = 0

\* evaluate_node was handed a state with a profile and no job description
\* and raised
C21_Witness ==
    /\ node = "evaluate"
    /\ state.candidate_profile /= None
    /\ state.job_description = None
    /\ raisedIn = "evaluate_node"
    /\ fitCalls = <<>>

\* ---------------------------------------------------------------- C22
StateFields == {"resume_pdf_bytes", "resume_text", "job_description_text",
                "candidate_profile", "job_description", "evaluation"}
\* the field the step about to be taken may write
WrittenField ==
    IF pc = "parse_resume" THEN "resume_text"
    ELSE IF pc = "call_api" THEN OutputField(node)
    ELSE "none"

\* C22: once a state has been handed to the pipeline, a step changes no
\* field of it but the one of the stage taking the step: parse_resume
\* writes only resume_text, the profile stage only candidate_profile, the
\* job stage only job_description, the fit stage only evaluation;
\* resume_pdf_bytes and job_description_text never change; and in a run of
\* run_evaluation a stage output that is stored is never changed again.
C22_StagesWriteOwnField ==
    [][pc /= "idle" =>
          /\ state'.resume_pdf_bytes = state.resume_pdf_bytes
          /\ state'.job_description_text = state.job_description_text
          /\ \A f \in StateFields : state'[f] /= state[f] => f = WrittenField
          /\ Called =>
                 \A f \in OutputFields :
                     state[f] /= None => state'[f] = state[f]]_vars

\* a run on a PDF has returned: every stage has written its field, and the
\* bytes and the job text are those the run was called with
C22_Witness ==
    /\ Called
    /\ pc = "returned"
    /\ pdfCalls /= <<>>
    /\ state.resume_text /= Arg.resume_text
    /\ state.resume_pdf_bytes = Arg.resume_pdf_bytes
    /\ state.job_description_text = Arg.job_description_text
    /\ \A f \in OutputFields : state[f] /= None

\* ---------------------------------------------------------------- C23
LaneEnded(l) == lanes[l].pc \in {"returned", "raised"}

\* C23: profile extraction and job extraction commute.  Given the same
\* arguments and the same outcome of every stage's generation call, the run
\* wired job-then-profile and the run with both extraction nodes under way
\* at once end as the run wired profile-then-job ends: with the same
\* EvaluationResult when it returns one, and with an exception of the same
\* class when it raises.
C23_ExtractionStagesCommute ==
    \A a \in Lanes, b \in Lanes :
        LaneEnded(a) /\ LaneEnded(b) =>
            /\ lanes[a].result = lanes[b].result
            /\ lanes[a].error = lanes[b].error
            /\ lanes[a].pc = lanes[b].pc
            /\ lanes[a].pc = "returned" => lanes[a].state = lanes[b].state

\* the three wirings have returned a result, the extraction nodes having
\* returned in different orders
C23_Witness ==
    /\ \A l \in Lanes : lanes[l].pc = "returned" /\ lanes[l].result /= None
    /\ lanes["profile_then_job"].done = <<"profile", "job">>
    /\ lanes["job_then_profile"].done = <<"job", "profile">>
    /\ lanes["parallel"].done = <<"job", "profile">>

\* ---------------------------------------------------------------- C24
\* C24: across all calls of get_openai_client, first calls made by several
\* threads at once included, at most one client instance is constructed
\* and every caller that is returned a client is returned that instance.
C24_OneClientForAllCallers ==
    /\ clientsConstructed <= 1
    /\ \A t \in Threads, u \in Threads :
           threads[t].got /= None /\ threads[u].got /= None =>
               threads[t].got = threads[u].got

\* ---------------------------------------------------------------- C26
\* the step is a transport call whose response has no content
EmptyContentStep == pc = "call_api" /\ attempts' = Append(attempts, "empty")

\* C26: a transport response with empty or absent content is a recoverable
\* error of structured_completion.  The call that returned it is one of
\* the attempts (it is counted and recorded), it gives the stage no record
\* and the run no result, and it is retried: after the first or second
\* attempt the retry loop waits and calls the transport again with the
\* next attempt number, after the third it gives up with RetryError.
C26_EmptyContentIsRetried ==
    [][/\ EmptyContentStep =>
            /\ transportCalls' = transportCalls + 1
            /\ Len(attempts') = attempt_number
            /\ attempt_number <= MaxAttempts
            /\ generated' = NoRecord
            /\ produced' = produced
            /\ state' = state
            /\ result' = None
            /\ IF attempt_number < MaxAttempts
               THEN pc' = "backoff" /\ error' = "none"
               ELSE pc' = "raised" /\ error' = "RetryError"
       /\ pc = "backoff" =>
            /\ pc' = "call_api"
            /\ attempt_number' = attempt_number + 1
            /\ attempts' = attempts]_vars

\* a first response without content, then a second transport call whose
\* response gave the stage its record
C26_Witness ==
    /\ Called
    /\ Len(attempts) = 2
    /\ attempts[1] = "empty"
    /\ attempts[2] = "ok"
    /\ transportCalls = 2
    /\ generated /= NoRecord

\* ---------------------------------------------------------------- C25
Stages == {"CandidateProfile", "JobDescription", "FitEvaluation"}
RunEnded == pc \in {"returned", "raised"}

\* the generation calls and the transport calls of a run so far are within
\* the limits: no stage has called structured_completion twice, so there
\* are at most 3 generation calls; the call under way or last made has
\* made at most MaxAttempts transport calls and each call before it made
\* at most MaxAttempts, which is at most 9 in all
C25_CallsBounded ==
    /\ Len(generationCalls) <= Cardinality(Stages)
    /\ \A i \in 1..Len(generationCalls), j \in 1..Len(generationCalls) :
           generationCalls[i] = generationCalls[j] => i = j
    /\ transportCalls <= MaxAttempts
    /\ generationCalls = <<>> => transportCalls = 0
    /\ generationCalls /= <<>> =>
           MaxAttempts * (Len(generationCalls) - 1) + transportCalls <= 9

\* transport calls are made one at a time inside a generation call, and
\* their count starts again from 0 only when the next stage calls
\* structured_completion
C25_TransportCallsCounted ==
    /\ transportCalls' /= transportCalls =>
           \/ /\ transportCalls' = transportCalls + 1
              /\ generationCalls' = generationCalls
           \/ /\ transportCalls' = 0
              /\ Len(generationCalls') = Len(generationCalls) + 1
    /\ Len(generationCalls') /= Len(generationCalls) =>
           /\ Len(generationCalls') = Len(generationCalls) + 1
           /\ transportCalls' = 0

\* C25: every run of run_evaluation terminates, by returning a result or
\* by raising, given that extract_text_from_pdf and every transport call
\* return; each stage calls structured_completion at most once, so the run
\* makes at most 3 generation calls and at most 9 transport calls.
C25_RunTerminatesWithinBounds ==
    /\ Called ~> RunEnded
    /\ [](Called => C25_CallsBounded)
    /\ [][Called => C25_TransportCallsCounted]_vars

\* a run that ended after all three stages had called structured_completion,
\* the last of them three times over
C25_Witness ==
    /\ Called /\ RunEnded
    /\ Len(generationCalls) = 3
    /\ transportCalls = MaxAttempts
    /\ executed = StageOrder
====
